---- MODULE Spec2Model ----
(***************************************************************************)
(* Movie catalog: a CSV seeder (database/populate.py) writing the movies   *)
(* table (database/models.py) and two read handlers (routes/movies.py)     *)
(* whose results are rendered through schemas/movies.py.                   *)
(*                                                                         *)
(* Numbers with a fractional part (score, budget, revenue) are records     *)
(* [w, f]: w the whole part, f the first fractional digit.  A date is a    *)
(* record [year, month, day]; the text of a CSV date field is a record     *)
(* [ws, f1, f2, f3] standing for the text "f1/f2/f3", surrounded by        *)
(* whitespace when ws is TRUE.                                             *)
(***************************************************************************)
EXTENDS Integers, Sequences, FiniteSets, TLC

VARIABLES csv, store, pc, req, resp

vars == <<csv, store, pc, req, resp>>

\* ------------------------------------------------------------------ bounds
MaxRows == 3
MaxPage == 3

\* ------------------------------------------------------- program constants
MinPage == 1
MinPerPage == 1
MaxPerPage == 20

NULL == [null |-> TRUE]
NoRequest == [kind |-> "none"]
NoResponse == [status |-> 0]

Seeders == {"p1", "p2"}

\* ----------------------------------------------------------- the CSV file
Num(w, f) == [w |-> w, f |-> f]

DateText(ws, f1, f2, f3) == [ws |-> ws, f1 |-> f1, f2 |-> f2, f3 |-> f3]

CsvRow(names, date_x, score, budget_x, revenue) ==
    [names |-> names, date_x |-> date_x, score |-> score,
     budget_x |-> budget_x, revenue |-> revenue]

\* The rows a CSV file of the model is made of: two rows with the same
\* (names, date_x) and different contents, a row whose date differs from
\* theirs only by surrounding whitespace, a row with a date that is no
\* month/day/year, and rows with other keys.
CsvRowPool ==
    { CsvRow("a", DateText(FALSE, 1, 2, 2020), Num(7, 0), Num(100, 0), Num(200, 0)),
      CsvRow("a", DateText(FALSE, 1, 2, 2020), Num(8, 0), Num(100, 0), Num(200, 5)),
      CsvRow("a", DateText(TRUE, 1, 2, 2020), Num(7, 5), Num(100, 0), Num(300, 0)),
      CsvRow("b", DateText(FALSE, 1, 2, 2020), Num(6, 0), Num(150, 0), Num(400, 0)),
      CsvRow("b", DateText(FALSE, 13, 45, 2020), Num(5, 0), Num(100, 0), Num(500, 0)),
      CsvRow("b", DateText(FALSE, 2, 1, 2020), Num(9, 0), Num(120, 0), Num(600, 0)) }

RECURSIVE SeqsUpTo(_, _)
SeqsUpTo(S, n) ==
    IF n = 0 THEN { <<>> }
    ELSE LET shorter == SeqsUpTo(S, n - 1)
         IN shorter \cup { Append(q, x) : q \in { t \in shorter : Len(t) = n - 1 }, x \in S }

CsvFiles == SeqsUpTo(CsvRowPool, MaxRows)

\* ------------------------------------------------ CSVDatabaseSeeder: input
\* drop_duplicates with keep='last': a row is kept when no later row has the
\* same names and the same date text.
RECURSIVE DropDuplicatesKeepLast(_)
DropDuplicatesKeepLast(data) ==
    IF data = <<>> THEN <<>>
    ELSE IF \E i \in 2..Len(data) :
               data[i].names = data[1].names /\ data[i].date_x = data[1].date_x
         THEN DropDuplicatesKeepLast(Tail(data))
         ELSE <<data[1]>> \o DropDuplicatesKeepLast(Tail(data))

\* data.drop_duplicates(subset=['names', 'date_x'], keep='first'): a row is
\* kept when no earlier row has the same names and the same date text.
RECURSIVE DropDuplicates(_)
DropDuplicates(data) ==
    IF data = <<>> THEN <<>>
    ELSE LET n == Len(data)
             last == data[n]
             front == SubSeq(data, 1, n - 1)
         IN IF \E i \in 1..(n - 1) :
                   data[i].names = last.names /\ data[i].date_x = last.date_x
            THEN DropDuplicates(front)
            ELSE Append(DropDuplicates(front), last)

\* data['date_x'].str.strip()
Strip(text) == [text EXCEPT !.ws = FALSE]

IsLeapYear(y) == (y % 4 = 0 /\ y % 100 # 0) \/ y % 400 = 0

DaysInMonth(m, y) ==
    IF m = 2 THEN (IF IsLeapYear(y) THEN 29 ELSE 28)
    ELSE IF m \in {4, 6, 9, 11} THEN 30 ELSE 31

\* pd.to_datetime(text, format='%m/%d/%Y', errors='coerce') followed by
\* .dt.date: the first field is the month, the second the day, the third
\* the year; a text that is no such date becomes the null value.
ToDate(text) ==
    IF /\ ~text.ws
       /\ text.f1 \in 1..12
       /\ text.f2 \in 1..DaysInMonth(text.f1, text.f3)
    THEN [year |-> text.f3, month |-> text.f1, day |-> text.f2]
    ELSE NULL

\* _preprocess_csv: the rows of the file, in file order, as seed() reads them.
PreprocessCsv(file) ==
    LET data == DropDuplicates(file)
    IN [i \in 1..Len(data) |-> [data[i] EXCEPT !.date_x = ToDate(Strip(@))]]

\* ------------------------------------------------------- the movies table
\* id: primary key, assigned on insert as one more than the largest id.
NextId(table) ==
    IF table = {} THEN 1
    ELSE (CHOOSE m \in { r.id : r \in table } : \A r \in table : r.id <= m) + 1

\* MovieModel(name=row['names'], date=row['date_x'], score=float(row['score']), ...)
MovieModel(row) ==
    [name |-> row.names, date |-> row.date_x, score |-> row.score,
     budget |-> row.budget_x, revenue |-> row.revenue]

\* date is nullable=False: the INSERT of a record without a date raises.
NotNullOk(movie) == movie.date # NULL

\* UniqueConstraint("name", "date")
UniqueOk(table, movie) ==
    \A r \in table : ~(r.name = movie.name /\ r.date = movie.date)

\* The INSERTs of the transaction, in row order, against the rows already
\* visible to it: ok is FALSE when one of them raises, and table then holds
\* the rows written before it.
RECURSIVE InsertAll(_, _)
InsertAll(table, rows) ==
    IF rows = <<>> THEN [ok |-> TRUE, table |-> table]
    ELSE LET movie == MovieModel(Head(rows))
         IN IF NotNullOk(movie) /\ UniqueOk(table, movie)
            THEN InsertAll(table \cup { [id |-> NextId(table)] @@ movie }, Tail(rows))
            ELSE [ok |-> FALSE, table |-> table]

\* A rollback that keeps the rows written before the error.
RollbackKeepsWritten(before, written) == written

\* await self._db_session.rollback(): the table is what it was before the
\* transaction began.
Rollback(before, written) == before

\* ------------------------------------------------------ CSVDatabaseSeeder
\* is_db_populated with the comparison total_count > 1.
IsPopulatedAboveOne(total_count) == total_count > 1

\* is_db_populated: total_count > 0
IsPopulated(total_count) == total_count > 0

\* main / the seed_database fixture, first half: a run of the entry point
\* starts, and calls seed() only when the table is empty.
IsDbPopulated(s) ==
    /\ pc[s] # "seed"
    /\ pc' = [pc EXCEPT ![s] = IF IsPopulated(Cardinality(store))
                               THEN "skipped" ELSE "seed"]
    /\ UNCHANGED <<csv, store, req, resp>>

\* seed(): preprocess, insert every row in one transaction, commit; on an
\* error roll back and re-raise (pc "failed": seed() has raised).
Seed(s) ==
    /\ pc[s] = "seed"
    /\ LET tx == InsertAll(store, PreprocessCsv(csv))
       IN IF tx.ok
          THEN /\ store' = tx.table
               /\ pc' = [pc EXCEPT ![s] = "seeded"]
          ELSE /\ store' = Rollback(store, tx.table)
               /\ pc' = [pc EXCEPT ![s] = "failed"]
    /\ UNCHANGED <<csv, req, resp>>

\* ------------------------------------------------------- schemas/movies.py
\* score: int and budget: int of MovieDetailResponseSchema: a stored number
\* is accepted as an integer only when it has no fractional part.
ValidInt(v) == v.f = 0

\* serialize_date: v.isoformat(), the text "year-month-day".
SerializeDate(v) == [iso |-> <<v.year, v.month, v.day>>]

\* serialize_revenue: int(v), the fractional part is cut off.
SerializeRevenue(v) == Num(v.w, 0)

\* The response model accepts the stored record.
SchemaAccepts(movie) == ValidInt(movie.score) /\ ValidInt(movie.budget)

\* The body MovieDetailResponseSchema renders for a stored record.
MovieDetailResponse(movie) ==
    [id |-> movie.id, name |-> movie.name, date |-> SerializeDate(movie.date),
     score |-> movie.score, budget |-> movie.budget,
     revenue |-> SerializeRevenue(movie.revenue)]

\* -------------------------------------------------------- routes/movies.py
\* The validation without le=20 on per_page.
ValidateListQueryNoMax(page, per_page) ==
    { [loc |-> "page", type |-> "greater_than_equal", bound |-> MinPage] :
          x \in { y \in {page} : y < MinPage } }
    \cup
    { [loc |-> "per_page", type |-> "greater_than_equal", bound |-> MinPerPage] :
          x \in { y \in {per_page} : y < MinPerPage } }

\* page: Query(1, ge=1); per_page: Query(10, ge=1, le=20).  The violated
\* bounds, each with the parameter it belongs to.
ValidateListQuery(page, per_page) ==
    { [loc |-> "page", type |-> "greater_than_equal", bound |-> MinPage] :
          x \in { y \in {page} : y < MinPage } }
    \cup
    { [loc |-> "per_page", type |-> "greater_than_equal", bound |-> MinPerPage] :
          x \in { y \in {per_page} : y < MinPerPage } }
    \cup
    { [loc |-> "per_page", type |-> "less_than_equal", bound |-> MaxPerPage] :
          x \in { y \in {per_page} : y > MaxPerPage } }

\* select(func.count()).select_from(MovieModel)
CountMovies(table) == Cardinality(table)

\* .order_by(MovieModel.id)
RECURSIVE OrderById(_)
OrderById(table) ==
    IF table = {} THEN <<>>
    ELSE LET first == CHOOSE r \in table : \A o \in table : r.id <= o.id
         IN <<first>> \o OrderById(table \ {first})

\* .offset(offset).limit(per_page)
OffsetLimit(rows, offset, limit) ==
    LET last == IF offset + limit < Len(rows) THEN offset + limit ELSE Len(rows)
    IN SubSeq(rows, offset + 1, last)

\* The offset with pages counted from 0.
OffsetZeroBased(page, per_page) == page * per_page

\* offset = (page - 1) * per_page
Offset(page, per_page) == (page - 1) * per_page

\* total_pages rounded down.
TotalPagesFloor(total_items, per_page) == total_items \div per_page

\* total_pages = (total_items + per_page - 1) // per_page
TotalPages(total_items, per_page) == (total_items + per_page - 1) \div per_page

\* f"/theater/movies/?page={page}&per_page={per_page}"
PageLink(page, per_page) ==
    [path |-> "/theater/movies/", page |-> page, per_page |-> per_page]

\* prev_page: the link to page - 1 if page > 1
PrevPage(page, per_page) ==
    IF page > 1 THEN PageLink(page - 1, per_page) ELSE NULL

\* next_page built on the last page too.
NextPageInclusive(page, per_page, total_pages) ==
    IF page <= total_pages THEN PageLink(page + 1, per_page) ELSE NULL

\* next_page: the link to page + 1 if page < total_pages
NextPage(page, per_page, total_pages) ==
    IF page < total_pages THEN PageLink(page + 1, per_page) ELSE NULL

\* get_movies without the "if not movies" check.
ListBodyNoEmptyCheck(total_items, movies, page, per_page) ==
    IF \E i \in 1..Len(movies) : ~SchemaAccepts(movies[i])
    THEN [status |-> 500, queries |-> 2]
    ELSE [status |-> 200,
          movies |-> [i \in 1..Len(movies) |-> MovieDetailResponse(movies[i])],
          prev_page |-> PrevPage(page, per_page),
          next_page |-> NextPage(page, per_page, TotalPages(total_items, per_page)),
          total_pages |-> TotalPages(total_items, per_page),
          total_items |-> total_items,
          queries |-> 2]

\* The answer of get_movies from the results of its two queries.  queries
\* counts the statements the handler has executed on the table; 500 stands
\* for a record the response model does not accept.
ListBody(total_items, movies, page, per_page) ==
    IF movies = <<>>
    THEN [status |-> 404, detail |-> "No movies found.", queries |-> 2]
    ELSE IF \E i \in 1..Len(movies) : ~SchemaAccepts(movies[i])
    THEN [status |-> 500, queries |-> 2]
    ELSE [status |-> 200,
          movies |-> [i \in 1..Len(movies) |-> MovieDetailResponse(movies[i])],
          prev_page |-> PrevPage(page, per_page),
          next_page |-> NextPage(page, per_page, TotalPages(total_items, per_page)),
          total_pages |-> TotalPages(total_items, per_page),
          total_items |-> total_items,
          queries |-> 2]

\* GET /movies/?page=..&per_page=..: the parameters are validated before the
\* handler body runs; the body counts the table, reads one page and answers.
GetMoviesResponse(table, page, per_page) ==
    IF ValidateListQuery(page, per_page) # {}
    THEN [status |-> 422, detail |-> ValidateListQuery(page, per_page), queries |-> 0]
    ELSE ListBody(CountMovies(table),
                  OffsetLimit(OrderById(table), Offset(page, per_page), per_page),
                  page, per_page)

\* select(MovieModel).where(MovieModel.id == movie_id), scalar_one_or_none
SelectById(table, movie_id) == { r \in table : r.id = movie_id }

\* GET /movies/{movie_id}/
GetMovieByIdResponse(table, movie_id) ==
    IF SelectById(table, movie_id) = {}
    THEN [status |-> 404, detail |-> "Movie with the given ID was not found.",
          queries |-> 1]
    ELSE LET movie == CHOOSE r \in SelectById(table, movie_id) : TRUE
         IN IF SchemaAccepts(movie)
            THEN [status |-> 200, body |-> MovieDetailResponse(movie), queries |-> 1]
            ELSE [status |-> 500, queries |-> 1]

\* ------------------------------------------------------------- the client
PerPageValues == {MinPerPage - 1, MinPerPage, MinPerPage + 1, MaxPerPage, MaxPerPage + 1}

RequestList(page, per_page) ==
    /\ req = NoRequest
    /\ req' = [kind |-> "list", page |-> page, per_page |-> per_page]
    /\ resp' = NoResponse
    /\ UNCHANGED <<csv, store, pc>>

RequestDetail(movie_id) ==
    /\ req = NoRequest
    /\ req' = [kind |-> "detail", movie_id |-> movie_id]
    /\ resp' = NoResponse
    /\ UNCHANGED <<csv, store, pc>>

\* ----------------------------------------------------------- the handlers
GetMovies ==
    /\ req.kind = "list"
    /\ resp' = GetMoviesResponse(store, req.page, req.per_page)
    /\ req' = NoRequest
    /\ UNCHANGED <<csv, store, pc>>

GetMovieById ==
    /\ req.kind = "detail"
    /\ resp' = GetMovieByIdResponse(store, req.movie_id)
    /\ req' = NoRequest
    /\ UNCHANGED <<csv, store, pc>>

\* ------------------------------------------------------- the specification
Init ==
    /\ csv \in CsvFiles
    /\ store = {}
    /\ pc = [s \in Seeders |-> "idle"]
    /\ req = NoRequest
    /\ resp = NoResponse

Next ==
    \/ \E s \in Seeders : IsDbPopulated(s)
    \/ \E s \in Seeders : Seed(s)
    \/ \E page \in 0..MaxPage, per_page \in PerPageValues : RequestList(page, per_page)
    \/ \E movie_id \in 0..(MaxRows + 1) : RequestDetail(movie_id)
    \/ GetMovies
    \/ GetMovieById

Spec == Init /\ [][Next]_vars

\* ------------------------------------- get_movies, one step for each await
\* The handler up to its first await: the parameters are validated, then
\* total_items = await db.scalar(select(func.count())...) reads the table.
GetMoviesCount ==
    /\ req.kind = "list"
    /\ IF ValidateListQuery(req.page, req.per_page) # {}
       THEN /\ resp' = [status |-> 422,
                        detail |-> ValidateListQuery(req.page, req.per_page),
                        queries |-> 0]
            /\ req' = NoRequest
       ELSE /\ req' = [kind |-> "list_counted", page |-> req.page,
                       per_page |-> req.per_page,
                       total_items |-> CountMovies(store)]
            /\ resp' = resp
    /\ UNCHANGED <<csv, store, pc>>

\* The handler from its second await on: result = await db.execute(select ..
\* order_by .. offset .. limit) reads the table as it is now, and the answer
\* is built from that page and the total_items counted before.
GetMoviesPage ==
    /\ req.kind = "list_counted"
    /\ resp' = ListBody(req.total_items,
                        OffsetLimit(OrderById(store),
                                    Offset(req.page, req.per_page), req.per_page),
                        req.page, req.per_page)
    /\ req' = NoRequest
    /\ UNCHANGED <<csv, store, pc>>

\* The seeders and the handlers, a seed transaction being free to commit
\* between the two queries of get_movies.
NextRace ==
    \/ \E s \in Seeders : IsDbPopulated(s)
    \/ \E s \in Seeders : Seed(s)
    \/ \E page \in 0..MaxPage, per_page \in PerPageValues : RequestList(page, per_page)
    \/ \E movie_id \in 0..(MaxRows + 1) : RequestDetail(movie_id)
    \/ GetMoviesCount
    \/ GetMoviesPage
    \/ GetMovieById

SpecRace == Init /\ [][NextRace]_vars

\* =================================================================== claims
\* A step in which get_movies answers the request in flight.
ListAnswered == req.kind = "list" /\ req' = NoRequest

\* A step in which get_movie_by_id answers the request in flight.
DetailAnswered == req.kind = "detail" /\ req' = NoRequest

\* The number of records of the table that precede r in identifier order.
Before(table, r) == Cardinality({ o \in table : o.id < r.id })

\* A 200 answer of the list operation.
ListOk(r) == r.status = 200 /\ "movies" \in DOMAIN r

\* The smaller of two numbers.
Smaller(a, b) == IF a < b THEN a ELSE b

\* C1: a 200 list answer holds exactly the records at positions offset+1 ..
\* offset+per_page of the table in ascending identifier order, where
\* offset = (page-1)*per_page, so it holds min(per_page, total - offset) movies.
C1_PageIsSlice ==
    [][ (ListAnswered /\ resp'.status = 200) =>
          LET offset == (req.page - 1) * req.per_page
              movies == resp'.movies
          IN /\ req.page >= 1 /\ req.per_page \in 1..20
             /\ Len(movies) = Smaller(req.per_page, Cardinality(store) - offset)
             /\ \A i \in 1..Len(movies) :
                   \E r \in store : /\ r.id = movies[i].id
                                    /\ r.name = movies[i].name
                                    /\ Before(store, r) = offset + i - 1 ]_vars

\* A second page of two that holds the one remaining record of three.
C1_Witness ==
    /\ ListOk(resp)
    /\ Cardinality(store) = 3
    /\ Len(resp.movies) = 1
    /\ resp.movies[1].id = 3
    /\ resp.prev_page # NULL
    /\ resp.prev_page.per_page = 2

\* C2: in a 200 list answer total_items is the number of records of the table
\* and total_pages is the least number of pages of per_page records that
\* hold them all.
C2_Totals ==
    [][ (ListAnswered /\ resp'.status = 200) =>
          /\ resp'.total_items = Cardinality(store)
          /\ resp'.total_pages * req.per_page >= resp'.total_items
          /\ (resp'.total_pages - 1) * req.per_page < resp'.total_items ]_vars

\* Three records in pages of two: two pages, the last one partial.
C2_Witness ==
    /\ ListOk(resp)
    /\ resp.total_items = 3
    /\ resp.total_pages = 2

\* C3: in a 200 list answer prev_page is null exactly on page 1 and next_page
\* is null exactly on the last page; a link names the neighbouring page with
\* the per_page of the request.
C3_Links ==
    [][ (ListAnswered /\ resp'.status = 200) =>
          /\ (resp'.prev_page = NULL) <=> (req.page = 1)
          /\ (resp'.next_page = NULL) <=> (req.page = resp'.total_pages)
          /\ resp'.prev_page # NULL =>
                /\ resp'.prev_page.page = req.page - 1
                /\ resp'.prev_page.per_page = req.per_page
          /\ resp'.next_page # NULL =>
                /\ resp'.next_page.page = req.page + 1
                /\ resp'.next_page.per_page = req.per_page ]_vars

\* A middle page: both links are present.
C3_Witness ==
    /\ ListOk(resp)
    /\ resp.prev_page # NULL
    /\ resp.next_page # NULL
    /\ resp.next_page.page = resp.prev_page.page + 2

\* The 404 answer of the list operation.
NoMoviesFound(r) == r.status = 404 /\ r.detail = "No movies found."

\* The pages needed for n records, per_page to a page (per_page >= 1).
PagesFor(n, per_page) ==
    CHOOSE k \in 0..n : k * per_page >= n /\ (k - 1) * per_page < n

\* C4 as stated: the list operation answers 404 "No movies found." whenever
\* the table is empty, whatever page and per_page are, and whenever page
\* exceeds total_pages; it never answers 200 with no movies.
C4_AsStated ==
    [][ ListAnswered =>
          /\ store = {} => NoMoviesFound(resp')
          /\ (req.per_page >= 1 /\ req.page > PagesFor(Cardinality(store), req.per_page))
                => NoMoviesFound(resp')
          /\ resp'.status = 200 => resp'.movies # <<>> ]_vars

\* C4 as amended: for page >= 1 and per_page in 1..20 the list operation
\* answers 404 "No movies found." whenever the table is empty and whenever
\* page exceeds total_pages; it never answers 200 with no movies.
C4_NotFound ==
    [][ ListAnswered =>
          /\ (req.page >= 1 /\ req.per_page \in 1..20) =>
                /\ store = {} => NoMoviesFound(resp')
                /\ req.page > PagesFor(Cardinality(store), req.per_page)
                      => NoMoviesFound(resp')
          /\ resp'.status = 200 => resp'.movies # <<>> ]_vars

\* A page past the last one of a table that holds records is answered 404.
C4_Witness ==
    /\ NoMoviesFound(resp)
    /\ \A s \in Seeders : pc[s] = "skipped"
    /\ store # {}

\* C5: a list request with page < 1, per_page < 1 or per_page > 20 is answered
\* 422 with an entry naming each violated bound, and the handler body has run
\* no query on the table, whatever the table holds.
C5_Validation ==
    [][ (ListAnswered /\ (req.page < 1 \/ req.per_page < 1 \/ req.per_page > 20)) =>
          /\ resp'.status = 422
          /\ resp'.queries = 0
          /\ req.page < 1 =>
                \E e \in resp'.detail : e.loc = "page" /\ e.bound = 1
          /\ req.per_page < 1 =>
                \E e \in resp'.detail : e.loc = "per_page" /\ e.bound = 1
          /\ req.per_page > 20 =>
                \E e \in resp'.detail : e.loc = "per_page" /\ e.bound = 20 ]_vars

\* A request over the maximum is rejected while the table holds records.
C5_Witness ==
    /\ resp.status = 422
    /\ \E e \in resp.detail : e.loc = "per_page" /\ e.bound = 20
    /\ \A s \in Seeders : pc[s] = "skipped"
    /\ store # {}

\* C6: the detail operation answers 200 with every field of the body equal
\* to the stored field of the record with that identifier (the date as its
\* ISO-8601 text) when there is one, and 404 "Movie with the given ID was not
\* found." when there is none.
C6_DetailEqualsStored ==
    [][ DetailAnswered =>
          IF \E r \in store : r.id = req.movie_id
          THEN /\ resp'.status = 200
               /\ \E r \in store :
                     /\ r.id = req.movie_id
                     /\ resp'.body.id = r.id
                     /\ resp'.body.name = r.name
                     /\ resp'.body.date.iso = <<r.date.year, r.date.month, r.date.day>>
                     /\ resp'.body.score = r.score
                     /\ resp'.body.budget = r.budget
                     /\ resp'.body.revenue = r.revenue
          ELSE /\ resp'.status = 404
               /\ resp'.detail = "Movie with the given ID was not found." ]_vars

\* A record of the table that is not rendered as stored: its revenue has a
\* fractional part and the table is read after the seeding.
C6_FailingInput ==
    /\ resp.status = 200
    /\ "body" \in DOMAIN resp
    /\ \E r \in store : r.id = resp.body.id /\ r.revenue # resp.body.revenue

\* A step in which seeder s starts a run of the entry point.
RunStarts(s) == pc[s] # "seed" /\ pc'[s] # pc[s]

\* A step in which the seed() call of seeder s ends.
SeedEnds(s) == pc[s] = "seed" /\ pc'[s] # "seed"

\* C7: a run of the seeding entry point that finds a record in the table
\* skips seed() and leaves the table as it is, however often it is run.
C7_SeedNoOpWhenPopulated ==
    [][ \A s \in Seeders :
          (RunStarts(s) /\ store # {}) => (pc'[s] = "skipped" /\ store' = store) ]_vars

\* Both seeders have run the entry point on a populated table.
C7_Witness ==
    /\ store # {}
    /\ \A s \in Seeders : pc[s] = "skipped"

\* Row i of the file is the first one with its (names, date_x).
FirstOccurrence(file, i) ==
    \A j \in 1..(i - 1) :
        ~(file[j].names = file[i].names /\ file[j].date_x = file[i].date_x)

\* The date field of the row is a month/day/year once the whitespace around
\* it is removed.
Parseable(row) ==
    /\ row.date_x.f1 \in 1..12
    /\ row.date_x.f2 \in 1..DaysInMonth(row.date_x.f1, row.date_x.f3)

\* Two rows name the same movie on the same day.
SameMovie(a, b) ==
    /\ a.names = b.names
    /\ a.date_x.f1 = b.date_x.f1
    /\ a.date_x.f2 = b.date_x.f2
    /\ a.date_x.f3 = b.date_x.f3

\* The record stores the row: its name, its date and its numbers.
Stores(r, row) ==
    /\ r.name = row.names
    /\ r.date = [year |-> row.date_x.f3, month |-> row.date_x.f1, day |-> row.date_x.f2]
    /\ r.score = row.score
    /\ r.budget = row.budget_x
    /\ r.revenue = row.revenue

\* The rows seed() inserts: the first occurrences of the file.
Remaining(file) == { i \in 1..Len(file) : FirstOccurrence(file, i) }

\* An insert of the batch raises a database error: a remaining row has no
\* date, or names a movie and day that an earlier remaining row or a record
\* of the table has already.
SomeInsertRaises(table, file) ==
    \E i \in Remaining(file) :
        \/ ~Parseable(file[i])
        \/ \E j \in Remaining(file) : j < i /\ SameMovie(file[j], file[i])
        \/ \E r \in table : r.name = file[i].names /\ Parseable(file[i])
                              /\ r.date = [year |-> file[i].date_x.f3,
                                           month |-> file[i].date_x.f1,
                                           day |-> file[i].date_x.f2]

\* C8: seed() is all or nothing: when an insert raises, the table afterwards
\* holds exactly the records it held before and seed() has raised; otherwise
\* every remaining row has been added to the records it held before.
C8_SeedAtomic ==
    [][ \A s \in Seeders : SeedEnds(s) =>
          IF SomeInsertRaises(store, csv)
          THEN pc'[s] = "failed" /\ store' = store
          ELSE /\ pc'[s] = "seeded"
               /\ store \subseteq store'
               /\ Cardinality(store') = Cardinality(store) + Cardinality(Remaining(csv))
               /\ \A i \in Remaining(csv) : \E r \in store' \ store : Stores(r, csv[i]) ]_vars

\* seed() has raised on its second row, after the insert of the first.
C8_Witness ==
    /\ \E s \in Seeders : pc[s] = "failed"
    /\ store = {}
    /\ Len(csv) >= 2
    /\ Parseable(csv[1])
    /\ FirstOccurrence(csv, 2)
    /\ (~Parseable(csv[2]) \/ SameMovie(csv[1], csv[2]))

\* No two records of the table have the same name and date.
UniqueMovies ==
    \A a, b \in store : (a.name = b.name /\ a.date = b.date) => a = b

\* C9: no two records of the table ever share (name, date), and a seed() that
\* succeeds on a file with several rows of the same (names, date_x) stores,
\* for that pair, one record: the first of those rows.
C9_UniqueFirstKept ==
    /\ []UniqueMovies
    /\ [][ \A s \in Seeders : (SeedEnds(s) /\ pc'[s] = "seeded") =>
             \A i \in 1..Len(csv) :
                LET first == CHOOSE j \in 1..i :
                                 /\ FirstOccurrence(csv, j)
                                 /\ csv[j].names = csv[i].names
                                 /\ csv[j].date_x = csv[i].date_x
                    same == { r \in store' \ store :
                                 /\ r.name = csv[i].names
                                 /\ r.date.month = csv[i].date_x.f1
                                 /\ r.date.day = csv[i].date_x.f2
                                 /\ r.date.year = csv[i].date_x.f3 }
                IN /\ Cardinality(same) = 1
                   /\ \A r \in same : Stores(r, csv[first]) ]_vars

\* A file with two different rows of the same (names, date_x) was seeded.
C9_Witness ==
    /\ \E s \in Seeders : pc[s] = "seeded"
    /\ store # {}
    /\ \E i, j \in 1..Len(csv) :
          /\ i < j
          /\ csv[i].names = csv[j].names
          /\ csv[i].date_x = csv[j].date_x
          /\ csv[i] # csv[j]

\* C10: when a remaining row of the file has a date that is no month/day/year
\* and no other insert would raise, seed() succeeds and adds one record for
\* every other remaining row.
C10_BadDateRowDropped ==
    [][ \A s \in Seeders :
          ( /\ SeedEnds(s)
            /\ \E i \in Remaining(csv) : ~Parseable(csv[i])
            /\ ~SomeInsertRaises(store, SelectSeq(csv, Parseable)) ) =>
          /\ pc'[s] = "seeded"
          /\ Cardinality(store' \ store)
                = Cardinality({ i \in Remaining(csv) : Parseable(csv[i]) })
          /\ \A i \in Remaining(csv) :
                Parseable(csv[i]) => \E r \in store' \ store : Stores(r, csv[i]) ]_vars

\* The movies the file names: the (name, month, day, year) of its rows with
\* a date.
MoviesOf(file) ==
    { <<file[i].names, file[i].date_x.f1, file[i].date_x.f2, file[i].date_x.f3>> :
          i \in { j \in 1..Len(file) : Parseable(file[j]) } }

\* The records of the table that store the movie m.
RecordsOf(table, m) ==
    { r \in table : /\ r.name = m[1]
                    /\ r.date = [year |-> m[4], month |-> m[2], day |-> m[3]] }

\* Both seeders have run the entry point to its end.
BothRunsEnded == \A s \in Seeders : pc[s] \in {"seeded", "skipped", "failed"}

\* C11: two seeders run the entry point concurrently on the empty table with
\* the same file.  In every interleaving at most one batch commits, the table
\* never holds two copies of a movie nor a part of the batch, and once both
\* runs have ended it holds exactly one record for every movie of the file.
C11_OneBatchCommits ==
    /\ \A m \in MoviesOf(csv) : Cardinality(RecordsOf(store, m)) <= 1
    /\ store # {} => \A m \in MoviesOf(csv) : RecordsOf(store, m) # {}
    /\ MoviesOf(csv) # {} => Cardinality({ s \in Seeders : pc[s] = "seeded" }) <= 1
    /\ BothRunsEnded =>
          /\ Cardinality(store) = Cardinality(MoviesOf(csv))
          /\ \A m \in MoviesOf(csv) : Cardinality(RecordsOf(store, m)) = 1

\* Both seeders passed the emptiness check, both seed() calls raised, and the
\* table is empty although the file names a movie.
C11_FailingInput ==
    /\ \A s \in Seeders : pc[s] = "failed"
    /\ store = {}
    /\ MoviesOf(csv) # {}

\* What the two seeders do leave: the table is empty or holds exactly the
\* remaining rows of the file, one record each.
C11_AllOrNothing ==
    \/ store = {}
    \/ /\ Cardinality(store) = Cardinality(Remaining(csv))
       /\ \A i \in Remaining(csv) : Cardinality({ r \in store : Stores(r, csv[i]) }) = 1

\* A step in which get_movies has counted the table.
ListCounted == req.kind = "list" /\ req'.kind = "list_counted"

\* A step in which get_movies answers after its page query.
ListPageAnswered == req.kind = "list_counted" /\ req' = NoRequest

\* C12 as stated: every 200 list answer describes one state of the table even
\* when a seed transaction commits between the count query and the page
\* query: 1 <= page <= total_pages and offset + the number of movies
\* <= total_items, so no answer carries movies with total_items = 0 or
\* total_pages = 0.
C12_AsStated ==
    [][ (ListPageAnswered /\ ListOk(resp')) =>
          LET offset == (req.page - 1) * req.per_page
          IN /\ 1 <= req.page
             /\ req.page <= resp'.total_pages
             /\ offset + Len(resp'.movies) <= resp'.total_items
             /\ resp'.total_items # 0
             /\ resp'.total_pages # 0 ]_vars

\* C12 as amended: total_items is the count of the table at the count query
\* and the movies are a page of the table at the page query; when no seed
\* transaction commits between the two, 1 <= page <= total_pages and
\* offset + the number of movies <= total_items.
C12_SingleStateWithoutCommit ==
    [][ /\ ListCounted => req'.total_items = Cardinality(store)
        /\ (ListPageAnswered /\ ListOk(resp')) =>
              LET offset == (req.page - 1) * req.per_page
              IN /\ resp'.total_items = req.total_items
                 /\ 1 <= req.page
                 /\ offset + Len(resp'.movies) <= Cardinality(store)
                 /\ req.total_items = Cardinality(store) =>
                       /\ req.page <= resp'.total_pages
                       /\ offset + Len(resp'.movies) <= resp'.total_items ]_vars

\* A last page answered from one state of the table.
C12_Witness ==
    /\ ListOk(resp)
    /\ resp.total_items = Cardinality(store)
    /\ resp.total_pages >= 2
    /\ resp.next_page = NULL

\* An answer that carries movies with total_items = 0: the seed committed
\* between the two queries.
C12_FailingInput ==
    /\ ListOk(resp)
    /\ resp.movies # <<>>
    /\ resp.total_items = 0
    /\ resp.total_pages = 0

====
